---- MODULE Spec2Model ----
(***************************************************************************)
(* The query kernel of src/src/App.js: splitConditions, parseValue,        *)
(* parseQuery, resolveField, compare, toggleDone and filteredByQuery.      *)
(*                                                                         *)
(* A JavaScript string is a sequence of one-character strings.  A          *)
(* JavaScript value is a record tagged by its typeof-like kind in field t. *)
(***************************************************************************)
EXTENDS Integers, Sequences, FiniteSets, TLC

\* ------------------------------------------------------------------------
\* Characters and strings
\* ------------------------------------------------------------------------

Range(f) == {f[x] : x \in DOMAIN f}

\* the characters of a text, one string each
Chars(text) == [k \in 1..Len(text) |-> SubSeq(text, k, k)]

Lowers ==
  <<"a","b","c","d","e","f","g","h","i","j","k","l","m",
    "n","o","p","q","r","s","t","u","v","w","x","y","z">>

Uppers ==
  <<"A","B","C","D","E","F","G","H","I","J","K","L","M",
    "N","O","P","Q","R","S","T","U","V","W","X","Y","Z">>

DigitChars == <<"0","1","2","3","4","5","6","7","8","9">>

Letters == Range(Lowers) \cup Range(Uppers)

Digits == Range(DigitChars)

\* \w of a JavaScript regular expression (no u flag): [A-Za-z0-9_]
WordChars == Letters \cup Digits \cup {"_"}

\* the line terminators among the characters drawn: "." does not match these
LineTerminators == {"\n", "\r"}

\* \s and String.prototype.trim: white space and line terminators
WhiteSpace == {" ", "\t"} \cup LineTerminators

IndexOf(seq, c) == CHOOSE k \in DOMAIN seq : seq[k] = c

\* one character of String.prototype.toLowerCase
LowerChar(c) == IF c \in Range(Uppers) THEN Lowers[IndexOf(Uppers, c)] ELSE c

toLowerCase(s) == [k \in DOMAIN s |-> LowerChar(s[k])]

\* s.slice(from - 1), 1-based: the suffix starting at position from
SliceFrom(s, from) == SubSeq(s, from, Len(s))

RECURSIVE TrimStart(_)
TrimStart(s) ==
  IF s # <<>> /\ Head(s) \in WhiteSpace THEN TrimStart(Tail(s)) ELSE s

RECURSIVE TrimEnd(_)
TrimEnd(s) ==
  IF s # <<>> /\ s[Len(s)] \in WhiteSpace
    THEN TrimEnd(SubSeq(s, 1, Len(s) - 1))
    ELSE s

\* String.prototype.trim
trim(s) == TrimEnd(TrimStart(s))

\* s begins with the characters of p, compared ignoring letter case
StartsWithCI(s, p) ==
  /\ Len(s) >= Len(p)
  /\ \A k \in DOMAIN p : LowerChar(s[k]) = LowerChar(p[k])

AllIn(s, set) == \A k \in DOMAIN s : s[k] \in set

\* the first position of s holding a character of set, or 0
FirstIn(s, set) ==
  IF \E k \in DOMAIN s : s[k] \in set
    THEN CHOOSE k \in DOMAIN s :
           s[k] \in set /\ \A j \in 1..(k - 1) : s[j] \notin set
    ELSE 0

\* ------------------------------------------------------------------------
\* JavaScript values
\* ------------------------------------------------------------------------

Undefined == [t |-> "undefined"]

Null == [t |-> "null"]

Bool(b) == [t |-> "boolean", v |-> b]

Str(s) == [t |-> "string", v |-> s]

\* a finite number m * 10^e, kept normalised: m has no trailing zero digit
Fin(m, e) == [t |-> "number", k |-> "fin", m |-> m, e |-> e]

PosInf == [t |-> "number", k |-> "inf", m |-> 1, e |-> 0]

NegInf == [t |-> "number", k |-> "inf", m |-> -1, e |-> 0]

NaN == [t |-> "number", k |-> "nan", m |-> 0, e |-> 0]

\* a plain object: its own members in insertion order, each [k |-> name, v |-> value]
Obj(members) == [t |-> "object", v |-> members]

\* one member of an object, and a string value, written as texts
M(name, value) == [k |-> Chars(name), v |-> value]

S(text) == Str(Chars(text))

\* ------------------------------------------------------------------------
\* Texts the language itself produces or recognises
\* ------------------------------------------------------------------------

HexDigitChars == DigitChars \o <<"a","b","c","d","e","f">>

InfinityText == Chars("Infinity")

NaNText == Chars("NaN")

TrueText == Chars("true")

FalseText == Chars("false")

NullText == Chars("null")

UndefinedText == Chars("undefined")

ObjectText == Chars("[object Object]")

\* the largest and smallest decimal exponent of a double's leading digit
MaxDecimalExponent == 308

MinDecimalExponent == -324

RECURSIVE NormNum(_, _)
NormNum(m, e) ==
  IF m = 0 THEN Fin(0, 0)
  ELSE IF m % 10 = 0 THEN NormNum(m \div 10, e + 1)
  ELSE Fin(m, e)

\* the number value of an integer
Int2Num(n) == NormNum(n, 0)

RECURSIVE Pow10(_)
Pow10(n) == IF n = 0 THEN 1 ELSE 10 * Pow10(n - 1)

Abs(n) == IF n < 0 THEN -n ELSE n

RECURSIVE NumDigits(_)
NumDigits(n) == IF Abs(n) < 10 THEN 1 ELSE 1 + NumDigits(Abs(n) \div 10)

\* x < y on two finite numbers, after scaling both to the smaller exponent
FinLess(x, y) ==
  LET e == IF x.e < y.e THEN x.e ELSE y.e
  IN x.m * Pow10(x.e - e) < y.m * Pow10(y.e - e)

\* the < of two numbers (IEEE: false when either is NaN)
NumLess(x, y) ==
  IF x.k = "nan" \/ y.k = "nan" THEN FALSE
  ELSE IF x.k = "inf" THEN x.m < 0 /\ ~(y.k = "inf" /\ y.m < 0)
  ELSE IF y.k = "inf" THEN y.m > 0
  ELSE FinLess(x, y)

\* the === of two numbers (IEEE: NaN equals nothing); the representation is
\* normalised, so equal values are equal records
NumEq(x, y) == x.k # "nan" /\ y.k # "nan" /\ x = y

\* Number.isNaN
isNaN(x) == x.t = "number" /\ x.k = "nan"

\* the value of a run of digits in the given radix
RECURSIVE DigitsVal(_, _)
DigitsVal(ds, radix) ==
  IF ds = <<>> THEN 0
  ELSE DigitsVal(SubSeq(ds, 1, Len(ds) - 1), radix) * radix
       + (IndexOf(HexDigitChars, LowerChar(ds[Len(ds)])) - 1)

\* the digits a radix accepts
RadixDigits(radix) ==
  {c \in Digits \cup Letters : \E k \in 1..radix : HexDigitChars[k] = LowerChar(c)}

\* 0x.., 0o.., 0b.. (StringNumericLiteral's NonDecimalIntegerLiteral; no sign)
RadixOf(t) ==
  IF Len(t) >= 3 /\ t[1] = "0" /\ LowerChar(t[2]) \in {"x", "o", "b"}
    THEN LET r == CASE LowerChar(t[2]) = "x" -> 16
                    [] LowerChar(t[2]) = "o" -> 8
                    [] OTHER -> 2
         IN IF AllIn(SliceFrom(t, 3), RadixDigits(r)) THEN r ELSE 0
    ELSE 0

\* the digits of an exponent part, after its sign
ExponentDigits(expo) ==
  IF expo # <<>> /\ expo[1] \in {"+", "-"} THEN Tail(expo) ELSE expo

\* the value of an exponent part whose digits are eDig
ExponentValue(expo, eDig) ==
  IF expo # <<>> /\ expo[1] = "-" THEN -DigitsVal(eDig, 10)
                                  ELSE DigitsVal(eDig, 10)

\* integer part ip, fraction part fp, exponent part expo (present iff hasExp)
DecimalFields(ip, fp, hasExp, expo, eDig) ==
  IF /\ AllIn(ip, Digits)
     /\ AllIn(fp, Digits)
     /\ ip \o fp # <<>>
     /\ (hasExp => (eDig # <<>> /\ AllIn(eDig, Digits)))
    THEN <<TRUE, DigitsVal(ip \o fp, 10), ExponentValue(expo, eDig) - Len(fp)>>
    ELSE <<FALSE, 0, 0>>

\* the mantissa mant around its decimal point at dot (0: none)
DecimalMantissa(mant, dot, hasExp, expo) ==
  DecimalFields(IF dot = 0 THEN mant ELSE SubSeq(mant, 1, dot - 1),
                IF dot = 0 THEN <<>> ELSE SliceFrom(mant, dot + 1),
                hasExp, expo, ExponentDigits(expo))

\* the literal u around its exponent indicator at ePos (0: none)
DecimalExponent(u, ePos) ==
  DecimalMantissa(IF ePos = 0 THEN u ELSE SubSeq(u, 1, ePos - 1),
                  FirstIn(IF ePos = 0 THEN u ELSE SubSeq(u, 1, ePos - 1), {"."}),
                  ePos # 0,
                  IF ePos = 0 THEN <<>> ELSE SliceFrom(u, ePos + 1))

\* StrUnsignedDecimalLiteral without Infinity: digits [. digits] [e [+-] digits]
\* or . digits [e [+-] digits].  The result is <<ok, m, e>>.
DecimalParts(u) == DecimalExponent(u, FirstIn(u, {"e", "E"}))

\* a decimal m * 10^e as a double: beyond the double range it is an infinity
\* or a zero (the band of decimal exponent 308, where the mantissa decides, and
\* the rounding of more than 15 significant digits are outside the inputs drawn)
DecimalToNum(sgn, m, e) ==
  IF m = 0 THEN Fin(0, 0)
  ELSE IF NumDigits(m) + e - 1 > MaxDecimalExponent
    THEN (IF sgn < 0 THEN NegInf ELSE PosInf)
  ELSE IF NumDigits(m) + e - 1 < MinDecimalExponent THEN Fin(0, 0)
  ELSE NormNum(sgn * m, e)

\* the parts d of a decimal literal as a number of sign sgn
DecimalResult(sgn, d) ==
  IF d[1] THEN DecimalToNum(sgn, d[2], d[3]) ELSE NaN

\* StrDecimalLiteral: the sign sgn and the unsigned literal u
SignedToNumber(sgn, u) ==
  IF u = InfinityText THEN (IF sgn < 0 THEN NegInf ELSE PosInf)
  ELSE DecimalResult(sgn, DecimalParts(u))

\* the trimmed text t, whose radix prefix announces radix (0: decimal)
RadixToNumber(t, radix) ==
  IF radix # 0 THEN NormNum(DigitsVal(SliceFrom(t, 3), radix), 0)
  ELSE SignedToNumber(IF t[1] = "-" THEN -1 ELSE 1,
                      IF t[1] \in {"+", "-"} THEN Tail(t) ELSE t)

\* the text t without surrounding white space
TrimmedToNumber(t) ==
  IF t = <<>> THEN Fin(0, 0) ELSE RadixToNumber(t, RadixOf(t))

\* Number(s) of a string s (StringToNumber)
StrToNumber(s) == TrimmedToNumber(trim(s))

\* Number(x) of any value
Number(x) ==
  CASE x.t = "number"    -> x
    [] x.t = "string"    -> StrToNumber(x.v)
    [] x.t = "boolean"   -> IF x.v THEN Fin(1, 0) ELSE Fin(0, 0)
    [] x.t = "null"      -> Fin(0, 0)
    [] x.t = "undefined" -> NaN
    [] OTHER             -> NaN

\* the decimal digits of a natural number
RECURSIVE NatToStr(_)
NatToStr(n) ==
  IF n < 10 THEN <<DigitChars[n + 1]>>
  ELSE NatToStr(n \div 10) \o <<DigitChars[(n % 10) + 1]>>

Zeros(n) == [k \in 1..n |-> "0"]

\* String(x) of a number (Number::toString, radix 10), for the values the
\* plain notation renders: 1e-7 <= |x| < 1e21
NumberToString(x) ==
  IF x.k = "nan" THEN NaNText
  ELSE IF x.k = "inf" THEN (IF x.m < 0 THEN <<"-">> ELSE <<>>) \o InfinityText
  ELSE
    LET sign == IF x.m < 0 THEN <<"-">> ELSE <<>>
        ds   == NatToStr(Abs(x.m))
        n    == Len(ds) + x.e
    IN IF x.e >= 0 THEN sign \o ds \o Zeros(x.e)
       ELSE IF n > 0 THEN sign \o SubSeq(ds, 1, n) \o <<".">> \o SliceFrom(ds, n + 1)
       ELSE sign \o <<"0", ".">> \o Zeros(-n) \o ds

\* String(x) of any value
String(x) ==
  CASE x.t = "string"    -> x.v
    [] x.t = "number"    -> NumberToString(x)
    [] x.t = "boolean"   -> IF x.v THEN TrueText ELSE FalseText
    [] x.t = "null"      -> NullText
    [] x.t = "undefined" -> UndefinedText
    [] OTHER             -> ObjectText

\* ------------------------------------------------------------------------
\* State
\* ------------------------------------------------------------------------

VARIABLES
  input,      \* splitConditions: its argument
  split,      \* splitConditions: the loop's locals i (1-based), buf, quote, parts
  splitPc,    \* splitConditions: "start", "loop" or "done"
  clauses,    \* splitConditions: the value returned
  cuts,       \* history: the positions of input at which the loop split
  valueRaw,   \* parseValue: its argument raw
  literal,    \* parseValue: the value returned, once valuePc is "done"
  valuePc,    \* parseValue: "idle", "call" or "done"
  cmpA,       \* compare: a
  cmpOp,      \* compare: op
  cmpB,       \* compare: b
  cmpResult,  \* compare: "true" or "false" once returned, "none" before
  resRow,     \* resolveField: row
  resField,   \* resolveField: field
  resResult,  \* resolveField: what it returned, or Throw; [t |-> "none"] before
  normalized, \* App: the items of the dataset, [id, row] each
  query,      \* App: the query text (useState, line 169)
  done,       \* App: the completion store (useState, line 185)
  conditions, \* App: parseQuery(query) (useMemo, line 206)
  filtered,   \* App: filteredByQuery (useMemo, line 208), or that it raised
  toggles     \* history: how many times each id was toggled

splitVars == <<input, split, splitPc, clauses, cuts>>

valueVars == <<valueRaw, literal, valuePc>>

cmpVars == <<cmpA, cmpOp, cmpB, cmpResult>>

resVars == <<resRow, resField, resResult>>

appVars == <<normalized, query, done, conditions, filtered, toggles>>

vars == <<splitVars, valueVars, cmpVars, resVars, appVars>>

\* ------------------------------------------------------------------------
\* splitConditions (App.js 8-35)
\* ------------------------------------------------------------------------

QuoteChars == {"\"", "'"}

AndText == Chars("and")

\* line 15: (ch === '"' || ch === "'") && !(i > 0 && input[i - 1] === '\\')
IsQuoteAt(s, i) == s[i] \in QuoteChars /\ ~(i > 1 /\ s[i - 1] = "\\")

\* a bug NextQuote could have: any quote character closes the open quote
NextQuoteAnyCloses(quote, ch) == IF quote # "" THEN "" ELSE ch

\* line 16: quote = quote === ch ? null : quote || ch   (null is "")
NextQuote(quote, ch) ==
  IF quote = ch THEN "" ELSE IF quote # "" THEN quote ELSE ch

\* line 20: !quote
NotInQuote(quote) == quote = ""

\* a bug AndHere could have: /^and/i, without the \b
AndHereUnbounded(s, i) == StartsWithCI(SliceFrom(s, i), AndText)

\* line 21: /^and\b/i.test(input.slice(i))
AndHere(s, i) ==
  LET rest == SliceFrom(s, i)
  IN /\ StartsWithCI(rest, AndText)
     /\ (IF Len(rest) = Len(AndText) THEN TRUE
         ELSE rest[Len(AndText) + 1] \notin WordChars)

\* lines 22-23: prev = input[i - 1]; !prev || /\W/.test(prev)
PrevIsBoundary(s, i) == IF i = 1 THEN TRUE ELSE s[i - 1] \notin WordChars

SplitStart == [i |-> 1, buf |-> <<>>, quote |-> "", parts |-> <<>>]

\* which branch of the loop body runs at st.i
AtQuote(s, st) == IsQuoteAt(s, st.i)

AtAnd(s, st) ==
  /\ ~AtQuote(s, st)
  /\ NotInQuote(st.quote)
  /\ AndHere(s, st.i)
  /\ PrevIsBoundary(s, st.i)

\* lines 16-18
StepQuote(s, st) ==
  [st EXCEPT !.quote = NextQuote(st.quote, s[st.i]),
             !.buf = Append(st.buf, s[st.i]),
             !.i = st.i + 1]

\* lines 24-27: i += 2 and the loop's i++
StepAnd(s, st) ==
  [st EXCEPT !.parts = Append(st.parts, trim(st.buf)),
             !.buf = <<>>,
             !.i = st.i + Len(AndText)]

\* line 31
StepChar(s, st) ==
  [st EXCEPT !.buf = Append(st.buf, s[st.i]), !.i = st.i + 1]

\* lines 33-34: the last flush, then parts.filter(Boolean)
SplitReturn(st) ==
  LET all == IF trim(st.buf) # <<>> THEN Append(st.parts, trim(st.buf))
                                    ELSE st.parts
  IN SelectSeq(all, LAMBDA part : part # <<>>)

RECURSIVE SplitLoop(_, _)
SplitLoop(s, st) ==
  IF st.i > Len(s) THEN st
  ELSE IF AtQuote(s, st) THEN SplitLoop(s, StepQuote(s, st))
  ELSE IF AtAnd(s, st) THEN SplitLoop(s, StepAnd(s, st))
  ELSE SplitLoop(s, StepChar(s, st))

splitConditions(s) == SplitReturn(SplitLoop(s, SplitStart))

\* ------------------------------------------------------------------------
\* parseValue (App.js 37-44)
\* ------------------------------------------------------------------------

\* a bug QuotedMatch could have: (.*) that stops at the first unescaped quote of
\* the opening kind, so that no such quote may stand inside
QuotedMatchNoInnerQuote(t) ==
  /\ Len(t) >= 2
  /\ t[1] \in QuoteChars
  /\ t[Len(t)] = t[1]
  /\ \A k \in 2..(Len(t) - 1) :
       t[k] \notin LineTerminators /\ (t[k] = t[1] => t[k - 1] = "\\")

\* line 39: t.match(/^(["'])(.*)\1$/): an opening quote, any characters but
\* line terminators, and the same quote as the last character
QuotedMatch(t) ==
  /\ Len(t) >= 2
  /\ t[1] \in QuoteChars
  /\ t[Len(t)] = t[1]
  /\ \A k \in 2..(Len(t) - 1) : t[k] \notin LineTerminators

\* m[2]
QuotedInner(t) == SubSeq(t, 2, Len(t) - 1)

\* lines 42-43: the number num read from t, or t itself
NumberOrText(num, t) == IF ~isNaN(num) THEN num ELSE Str(t)

\* lines 39-43, on t = raw.trim(); line 41: num = Number(t)
parseTrimmed(t) ==
  IF QuotedMatch(t) THEN Str(QuotedInner(t))
  ELSE NumberOrText(StrToNumber(t), t)

\* lines 37-44
parseValue(raw) == parseTrimmed(trim(raw))

\* ------------------------------------------------------------------------
\* parseQuery (App.js 46-67)
\* ------------------------------------------------------------------------

SelectText == Chars("select")

WhereText == Chars("where")

CompletedText == Chars("completed")

DoneText == Chars("done")

\* line 60: the alternatives of (==|=|!=|>=|<=|>|<), in the order tried
Operators ==
  << <<"=","=">>, <<"=">>, <<"!","=">>, <<">","=">>, <<"<","=">>, <<">">>, <<"<">> >>

\* line 60: [a-zA-Z0-9_.]
FieldChars == WordChars \cup {"."}

\* the length of the longest prefix of s made of characters of set
RECURSIVE SpanLen(_, _)
SpanLen(s, set) ==
  IF s # <<>> /\ Head(s) \in set THEN 1 + SpanLen(Tail(s), set) ELSE 0

\* s with its longest prefix of white space removed (a greedy \s*)
SkipSpace(s) == SliceFrom(s, SpanLen(s, WhiteSpace) + 1)

StartsWith(s, p) == Len(s) >= Len(p) /\ SubSeq(s, 1, Len(p)) = p

\* line 49: q.replace(/^select\s*\*\s*where\s*/i, '')
StripSelect(q) ==
  IF StartsWithCI(q, SelectText)
    THEN LET a == SkipSpace(SliceFrom(q, Len(SelectText) + 1))
         IN IF a # <<>> /\ a[1] = "*"
              THEN LET b == SkipSpace(Tail(a))
                   IN IF StartsWithCI(b, WhereText)
                        THEN SkipSpace(SliceFrom(b, Len(WhereText) + 1))
                        ELSE q
              ELSE q
    ELSE q

\* line 50: q.replace(/^where\s*/i, '')
StripWhere(q) ==
  IF StartsWithCI(q, WhereText)
    THEN SkipSpace(SliceFrom(q, Len(WhereText) + 1))
    ELSE q

\* line 60: \s*(.+)$ against the text r after the operator: <<matched, text of
\* group 3>>.  The greedy \s* takes all leading white space; when nothing is
\* left for .+ it gives its last character back, which "." takes unless that
\* character is a line terminator.
ValueRest(r) ==
  LET w    == SpanLen(r, WhiteSpace)
      rest == SliceFrom(r, w + 1)
  IN IF rest # <<>>
       THEN IF \E k \in DOMAIN rest : rest[k] \in LineTerminators
              THEN <<FALSE, <<>>>>
              ELSE <<TRUE, rest>>
       ELSE IF w > 0 /\ r[w] \notin LineTerminators
         THEN <<TRUE, <<r[w]>>>>
         ELSE <<FALSE, <<>>>>

\* a bug BinaryMatch could have: the operator is the first alternative found
\* after the field, with no fall back to a later one when no value follows it
BinaryMatchFirstOperator(s) ==
  LET f    == SpanLen(s, FieldChars)
      atOp == SkipSpace(SliceFrom(s, f + 1))
      hits == {k \in DOMAIN Operators : StartsWith(atOp, Operators[k])}
      k    == CHOOSE h \in hits : \A j \in hits : h <= j
      rest == ValueRest(SliceFrom(atOp, Len(Operators[k]) + 1))
  IN IF f = 0 \/ hits = {} THEN <<FALSE, <<>>, <<>>, <<>>>>
     ELSE IF ~rest[1] THEN <<FALSE, <<>>, <<>>, <<>>>>
     ELSE <<TRUE, SubSeq(s, 1, f), Operators[k], rest[2]>>

\* line 60: s.match(/^([a-zA-Z0-9_.]+)\s*(==|=|!=|>=|<=|>|<)\s*(.+)$/):
\* <<matched, field, op, valueRaw>>.  The field and the white space after it
\* are the longest runs; the operator is the first alternative after which the
\* rest of the pattern matches.
AfterOperator(atOp, k) == SliceFrom(atOp, Len(Operators[k]) + 1)

\* the alternatives of the operator group that match at atOp with a value
\* after them
OperatorHits(atOp) ==
  {k \in DOMAIN Operators :
     StartsWith(atOp, Operators[k]) /\ ValueRest(AfterOperator(atOp, k))[1]}

\* the match with the field of length f and the k-th operator at atOp
MatchWith(s, f, atOp, k) ==
  <<TRUE, SubSeq(s, 1, f), Operators[k], ValueRest(AfterOperator(atOp, k))[2]>>

\* the match, given the alternatives hits that can be the operator
MatchAmong(s, f, atOp, hits) ==
  IF f = 0 \/ hits = {}
    THEN <<FALSE, <<>>, <<>>, <<>>>>
    ELSE MatchWith(s, f, atOp, CHOOSE h \in hits : \A j \in hits : h <= j)

\* the match, given the length f of the field and the text atOp after the
\* field and the white space
MatchAfterField(s, f, atOp) == MatchAmong(s, f, atOp, OperatorHits(atOp))

MatchField(s, f) == MatchAfterField(s, f, SkipSpace(SliceFrom(s, f + 1)))

BinaryMatch(s) == MatchField(s, SpanLen(s, FieldChars))

\* line 55
IsFlag(flag) ==
  flag \in {CompletedText, <<"!">> \o CompletedText, DoneText, <<"!">> \o DoneText}

FlagCond(positive) == [type |-> "flag", field |-> CompletedText, value |-> positive]

BinaryCond(field, op, value) ==
  [type |-> "binary", field |-> field, op |-> op, value |-> value]

\* line 64: op === '=' ? '==' : op
NormalOp(op) == IF op = <<"=">> THEN <<"=","=">> ELSE op

\* lines 54-64, the body of the loop over condStrs: the conditions one clause
\* pushes
ClauseConds(flag, m) ==
  IF IsFlag(flag) THEN <<FlagCond(flag[1] # "!")>>
  ELSE IF ~m[1] THEN <<>>
  ELSE <<BinaryCond(m[2], NormalOp(m[3]), parseValue(m[4]))>>

\* line 54: flag = s.trim().toLowerCase(); line 60: m = s.match(...)
parseClause(s) == ClauseConds(toLowerCase(trim(s)), BinaryMatch(s))

RECURSIVE parseClauses(_)
parseClauses(condStrs) ==
  IF condStrs = <<>> THEN <<>>
  ELSE parseClause(Head(condStrs)) \o parseClauses(Tail(condStrs))

\* lines 48-51: the clause strings of a query
queryClauses(text) == splitConditions(StripWhere(StripSelect(trim(text))))

parseQuery(text) ==
  IF text = <<>> THEN <<>> ELSE parseClauses(queryClauses(text))

\* ------------------------------------------------------------------------
\* resolveField (App.js 69-104)
\* ------------------------------------------------------------------------

PtsText == Chars("pts")

PointsText == Chars("points")

PontsText == Chars("ponts")

PointText == Chars("point")

AreaText == Chars("area")

RegionText == Chars("region")

LocationText == Chars("location")

LevelText == Chars("level")

LvlText == Chars("lvl")

TierText == Chars("tier")

NameText == Chars("name")

\* the all-lowercase names an object literal inherits from Object.prototype:
\* FIELD_SYNONYMS[lc] finds them too, and finds no array there
InheritedNames ==
  {Chars("constructor"), Chars("__proto__")}

\* lines 69-76: the own members of FIELD_SYNONYMS
SynonymKeys == {PtsText, PointsText, AreaText, LevelText, LvlText, CompletedText}

FIELD_SYNONYMS(key) ==
  CASE key = PtsText       -> <<PtsText, PointsText, PontsText, PointText>>
    [] key = PointsText    -> <<PointsText, PtsText, PontsText, PointText>>
    [] key = AreaText      -> <<AreaText, RegionText, LocationText>>
    [] key = LevelText     -> <<LevelText, LvlText, TierText>>
    [] key = LvlText       -> <<LvlText, LevelText>>
    [] key = CompletedText -> <<CompletedText, DoneText>>

\* what an evaluation that raised TypeError yields
Throw == [t |-> "TypeError"]

\* line 80: FIELD_SYNONYMS[lc] || [lc]
Candidates(lc) == IF lc \in SynonymKeys THEN FIELD_SYNONYMS(lc) ELSE <<lc>>

\* obj[name]: the own member of that exact name, or undefined
Member(obj, name) ==
  IF obj.t = "object" /\ \E k \in DOMAIN obj.v : obj.v[k].k = name
    THEN obj.v[CHOOSE k \in DOMAIN obj.v : obj.v[k].k = name].v
    ELSE Undefined

\* Object.keys(obj).find((kk) => kk.toLowerCase() === name): the position of
\* the first own member whose lowercased name is name, or 0.  A member named ''
\* is found and then dropped by the test of the key's truth (lines 88, 96).
FindKey(obj, name) ==
  LET hits == {k \in DOMAIN obj.v : toLowerCase(obj.v[k].k) = name /\ obj.v[k].k # <<>>}
  IN IF hits = {} THEN 0 ELSE CHOOSE k \in hits : \A j \in hits : k <= j

\* lines 86-89: the first candidate, in table order, that names a member
RECURSIVE ScanCandidates(_, _)
ScanCandidates(row, cands) ==
  IF cands = <<>> THEN <<FALSE, Undefined>>
  ELSE IF FindKey(row, Head(cands)) # 0
    THEN <<TRUE, row.v[FindKey(row, Head(cands))].v>>
  ELSE ScanCandidates(row, Tail(cands))

\* lc.split('.')
RECURSIVE SplitDots(_)
SplitDots(s) ==
  LET d == FirstIn(s, {"."})
  IN IF d = 0 THEN <<s>>
     ELSE <<SubSeq(s, 1, d - 1)>> \o SplitDots(SliceFrom(s, d + 1))

\* lines 92-100: the walk along the segments
RECURSIVE Walk(_, _)
Walk(v, segs) ==
  IF segs = <<>> THEN v
  ELSE IF v.t = "object"
    THEN Walk(IF FindKey(v, Head(segs)) # 0
                THEN v.v[FindKey(v, Head(segs))].v
                ELSE Undefined,
              Tail(segs))
  ELSE Walk(Undefined, Tail(segs))

\* lines 81-84: the area of a row, as <<found, value>>
AreaOf(row) ==
  LET area == Member(row, AreaText)
  IN IF area.t = "string" THEN <<TRUE, area>>
     ELSE IF area.t = "object" /\ Member(area, NameText).t = "string"
       THEN <<TRUE, Member(area, NameText)>>
     ELSE <<FALSE, Undefined>>

resolveField(row, field) ==
  LET lc    == toLowerCase(field)
      cands == Candidates(lc)
      scan  == ScanCandidates(row, cands)
  IN IF lc \in InheritedNames THEN Throw
     ELSE IF AreaText \in Range(cands) /\ AreaOf(row)[1] THEN AreaOf(row)[2]
     ELSE IF scan[1] THEN scan[2]
     ELSE IF "." \in Range(lc) THEN Walk(row, SplitDots(lc))
     ELSE Undefined

\* ------------------------------------------------------------------------
\* compare (App.js 106-133)
\* ------------------------------------------------------------------------

OpEq == <<"=","=">>

OpNeq == <<"!","=">>

OpGt == <<">">>

OpLt == <<"<">>

OpGte == <<">","=">>

OpLte == <<"<","=">>

\* a bug isNum could have: no test of x.trim() !== ''
isNumBlankToo(x) ==
  \/ x.t = "number"
  \/ x.t = "string" /\ ~isNaN(StrToNumber(x.v))

\* line 107
isNum(x) ==
  \/ x.t = "number"
  \/ x.t = "string" /\ trim(x.v) # <<>> /\ ~isNaN(StrToNumber(x.v))

\* lines 114-115: String(x ?? '').toLowerCase()
LowerText(x) ==
  toLowerCase(IF x.t \in {"undefined", "null"} THEN <<>> ELSE String(x))

\* lines 108-117
compareEquality(a, op, b) ==
  LET same == IF isNum(a) /\ isNum(b)
                THEN NumEq(Number(a), Number(b))
                ELSE LowerText(a) = LowerText(b)
  IN same = (op = OpEq)

\* lines 118-132
compareNumbers(aa, op, bb) ==
  IF isNaN(aa) \/ isNaN(bb) THEN FALSE
  ELSE CASE op = OpGt  -> NumLess(bb, aa)
         [] op = OpLt  -> NumLess(aa, bb)
         [] op = OpGte -> ~NumLess(aa, bb)
         [] op = OpLte -> ~NumLess(bb, aa)
         [] OTHER      -> FALSE

\* lines 118-119: aa = Number(a), bb = Number(b)
compareOrder(a, op, b) == compareNumbers(Number(a), op, Number(b))

compare(a, op, b) ==
  IF op \in {OpEq, OpNeq} THEN compareEquality(a, op, b)
                          ELSE compareOrder(a, op, b)

\* ------------------------------------------------------------------------
\* App: normalized, toggleDone, filteredByQuery (App.js 160-224)
\* ------------------------------------------------------------------------

\* line 164: the identifier is a hash of a text that the row alone decides.
\* The model takes the row's content for its hash: equal rows share an
\* identifier, as in the code; two different rows with one 32-bit hash are
\* not modelled.
RecordId(row) == row

\* lines 160-167
Normalize(rows) == [k \in DOMAIN rows |-> [id |-> RecordId(rows[k]), row |-> rows[k]]]

\* !!done[id]
DoneOf(store, id) == id \in DOMAIN store /\ store[id]

\* a bug Toggled could have: { ...prev, [id]: true }
ToggledSetsTrue(prev, id) ==
  [k \in DOMAIN prev \cup {id} |-> IF k = id THEN TRUE ELSE prev[k]]

\* line 203: { ...prev, [id]: !prev[id] }
Toggled(prev, id) ==
  [k \in DOMAIN prev \cup {id} |-> IF k = id THEN ~DoneOf(prev, id) ELSE prev[k]]

Truth(b) == IF b THEN "true" ELSE "false"

\* a bug ActualOperand could have: the record's own field is read
ActualOperandFromRecord(cond, item, store) == resolveField(item.row, cond.field)

\* lines 216-218
ActualOperand(cond, item, store) ==
  IF toLowerCase(cond.field) \in {CompletedText, DoneText}
    THEN Bool(DoneOf(store, item.id))
    ELSE resolveField(item.row, cond.field)

\* lines 212-221, the callback of every: "true", "false", or "throw" when
\* resolveField raised
BinaryHolds(actual, cond) ==
  IF actual.t = Throw.t THEN "throw"
  ELSE Truth(compare(actual, cond.op, cond.value))

CondHolds(cond, item, store) ==
  IF cond.type = "flag" /\ toLowerCase(cond.field) = CompletedText
    THEN Truth(DoneOf(store, item.id) = cond.value)
  ELSE IF cond.type = "binary"
    THEN BinaryHolds(ActualOperand(cond, item, store), cond)
  ELSE "true"

\* line 211: conditions.every(...), which stops at the first false
AndThen(r, rest) == IF r = "true" THEN rest ELSE r

RECURSIVE Every(_, _, _)
Every(conds, item, store) ==
  IF conds = <<>> THEN "true"
  ELSE AndThen(CondHolds(Head(conds), item, store),
               Every(Tail(conds), item, store))

Kept(items) == [raised |-> FALSE, items |-> items]

Raised == [raised |-> TRUE, items |-> <<>>]

\* the result of filter once the callback returned r for item, given the
\* result for the items after it
WithItem(r, item, rest) ==
  IF r = "throw" \/ rest.raised THEN Raised
  ELSE Kept((IF r = "true" THEN <<item>> ELSE <<>>) \o rest.items)

\* line 210: normalized.filter(...), item by item in order
RECURSIVE FilterItems(_, _, _)
FilterItems(items, conds, store) ==
  IF items = <<>> THEN Kept(<<>>)
  ELSE WithItem(Every(conds, Head(items), store), Head(items),
                FilterItems(Tail(items), conds, store))

\* lines 208-224
filteredByQuery(items, conds, store) ==
  IF conds = <<>> THEN Kept(items) ELSE FilterItems(items, conds, store)

\* ------------------------------------------------------------------------
\* The states in which a part of the program is not running
\* ------------------------------------------------------------------------

NoResult == [t |-> "none"]

SplitIdle ==
  /\ input = <<>> /\ split = SplitStart /\ splitPc = "idle"
  /\ clauses = <<>> /\ cuts = {}

ValueIdle == valueRaw = <<>> /\ literal = NoResult /\ valuePc = "idle"

CmpIdle == cmpA = Undefined /\ cmpOp = OpEq /\ cmpB = Undefined /\ cmpResult = "none"

ResIdle == resRow = Obj(<<>>) /\ resField = <<>> /\ resResult = NoResult

AppIdle ==
  /\ normalized = <<>> /\ query = <<>> /\ done = <<>>
  /\ conditions = <<>> /\ filtered = Kept(<<>>) /\ toggles = <<>>

\* ------------------------------------------------------------------------
\* SpecSplit: one run of splitConditions, a step of its loop at a time
\* ------------------------------------------------------------------------

\* the longest input of SplitInputs, in tokens
MaxTokens == 4

SplitTokens ==
  {AndText, Chars("x"), Chars(" "), Chars("'"), Chars("\""), Chars("\\")}

RECURSIVE Flatten(_)
Flatten(ts) == IF ts = <<>> THEN <<>> ELSE Head(ts) \o Flatten(Tail(ts))

SplitExamples ==
  { Chars("pts = 400 and area = 'Al Kharid and Stuff'"),
    Chars("brand = 1 and android = 2"),
    Chars("a = 1 AND b = \"x and 'y\" And c"),
    Chars("and and x"),
    Chars("a = 'it\\'s and' and b") }

SplitInputs ==
  SplitExamples
    \cup {Flatten(ts) : ts \in UNION {[1..n -> SplitTokens] : n \in 0..MaxTokens}}

SplitInit ==
  /\ input \in SplitInputs
  /\ split = SplitStart
  /\ splitPc = "loop"
  /\ clauses = <<>>
  /\ cuts = {}
  /\ ValueIdle /\ CmpIdle /\ ResIdle /\ AppIdle

SplitRunning == splitPc = "loop" /\ split.i <= Len(input)

SplitAtQuote ==
  /\ SplitRunning
  /\ AtQuote(input, split)
  /\ split' = StepQuote(input, split)
  /\ UNCHANGED <<input, splitPc, clauses, cuts, valueVars, cmpVars, resVars, appVars>>

SplitAtAnd ==
  /\ SplitRunning
  /\ AtAnd(input, split)
  /\ split' = StepAnd(input, split)
  /\ cuts' = cuts \cup {split.i}
  /\ UNCHANGED <<input, splitPc, clauses, valueVars, cmpVars, resVars, appVars>>

SplitAtChar ==
  /\ SplitRunning
  /\ ~AtQuote(input, split)
  /\ ~AtAnd(input, split)
  /\ split' = StepChar(input, split)
  /\ UNCHANGED <<input, splitPc, clauses, cuts, valueVars, cmpVars, resVars, appVars>>

SplitDone ==
  /\ splitPc = "loop"
  /\ split.i > Len(input)
  /\ clauses' = SplitReturn(split)
  /\ splitPc' = "done"
  /\ UNCHANGED <<input, split, cuts, valueVars, cmpVars, resVars, appVars>>

SplitNext == SplitAtQuote \/ SplitAtAnd \/ SplitAtChar \/ SplitDone

SpecSplit == SplitInit /\ [][SplitNext]_vars

\* The quote that is open after the first n characters of s, "" when none: an
\* unescaped quote opens when none is open and closes when it is the open one.
RECURSIVE OpenQuote(_, _)
OpenQuote(s, n) ==
  IF n = 0 THEN ""
  ELSE LET q == OpenQuote(s, n - 1)
       IN IF s[n] \in QuoteChars /\ ~(n > 1 /\ s[n - 1] = "\\")
            THEN (IF q = "" THEN s[n] ELSE IF q = s[n] THEN "" ELSE q)
            ELSE q

\* the letters a, n, d in any case at positions i, i+1, i+2 of s
SpellsAnd(s, i) ==
  /\ i + 2 <= Len(s)
  /\ LowerChar(s[i]) = "a" /\ LowerChar(s[i + 1]) = "n" /\ LowerChar(s[i + 2]) = "d"

\* the positions of the keyword and: outside quotes, and a word of its own
TopLevelAnds(s) ==
  {i \in 1..Len(s) :
     /\ SpellsAnd(s, i)
     /\ OpenQuote(s, i - 1) = ""
     /\ (i = 1 \/ s[i - 1] \notin WordChars)
     /\ (i + 3 > Len(s) \/ s[i + 3] \notin WordChars)}

\* the text of s between the keywords at the positions ands, in order
PieceFrom(s, ands, p) ==
  LET later == {c \in ands : c >= p}
      stop  == IF later = {} THEN Len(s) + 1
               ELSE CHOOSE c \in later : \A d \in later : c <= d
  IN SubSeq(s, p, stop - 1)

RECURSIVE PiecesFrom(_, _, _)
PiecesFrom(s, ands, p) ==
  LET piece == PieceFrom(s, ands, p)
      next  == p + Len(piece)
  IN IF next > Len(s) THEN <<piece>>
     ELSE <<piece>> \o PiecesFrom(s, ands, next + 3)

NonBlank(piece) == \E k \in DOMAIN piece : piece[k] \notin WhiteSpace

\* C3: splitConditions is quote-aware: no split happens at a position inside a
\* quoted literal, and the clauses returned are the non-blank pieces between
\* the top-level keywords, trimmed and in order, so that their number is the
\* number of top-level keywords plus one less the number of blank pieces.
C3_QuoteAwareSplit ==
  /\ \A c \in cuts : OpenQuote(input, c - 1) = ""
  /\ splitPc = "done" =>
       LET pieces == PiecesFrom(input, TopLevelAnds(input), 1)
           blanks == {k \in DOMAIN pieces : ~NonBlank(pieces[k])}
           kept   == SelectSeq(pieces, NonBlank)
       IN /\ Len(pieces) = Cardinality(TopLevelAnds(input)) + 1
          /\ Len(clauses) = Cardinality(TopLevelAnds(input)) + 1 - Cardinality(blanks)
          /\ clauses = [k \in DOMAIN kept |-> trim(kept[k])]

C3_Witness ==
  /\ splitPc = "done"
  /\ input = Chars("pts = 400 and area = 'Al Kharid and Stuff'")
  /\ clauses = <<Chars("pts = 400"), Chars("area = 'Al Kharid and Stuff'")>>

\* C9 as stated: outside quotes the loop splits at the letters and exactly when
\* the character before them is absent or not a word character, whatever
\* follows them.
C9_SplitsOnPrecedingBoundaryOnly ==
  splitPc = "done" =>
    \A i \in 1..Len(input) :
      (SpellsAnd(input, i) /\ OpenQuote(input, i - 1) = "") =>
        (i \in cuts <=> (i = 1 \/ input[i - 1] \notin WordChars))

\* C9 amended: outside quotes the loop splits at the letters and exactly when
\* the character before them is absent or not a word character and the
\* character after them is absent or not a word character; it splits nowhere
\* else.
C9_SplitsOnBothBoundaries ==
  splitPc = "done" =>
    /\ \A i \in 1..Len(input) :
         (SpellsAnd(input, i) /\ OpenQuote(input, i - 1) = "") =>
           (i \in cuts <=>
              /\ (i = 1 \/ input[i - 1] \notin WordChars)
              /\ (i + 3 > Len(input) \/ input[i + 3] \notin WordChars))
    /\ \A c \in cuts : SpellsAnd(input, c) /\ OpenQuote(input, c - 1) = ""

C9_Witness ==
  /\ splitPc = "done"
  /\ input = Chars("brand = 1 and android = 2")
  /\ cuts = {11}
  /\ clauses = <<Chars("brand = 1"), Chars("android = 2")>>


\* ------------------------------------------------------------------------
\* SpecValue: one call of parseValue
\* ------------------------------------------------------------------------

\* the longest raw value drawn from ValueAlphabet
MaxValueLen == 4

ValueAlphabet == {"'", "\"", "\\", "4", "a", " ", "\n"}

ValueExamples ==
  { Chars("'400'"), Chars("\"400\""), Chars("400"), Chars(" '4'4' "),
    Chars("'Al Kharid'"), Chars("'it\\'s'"), Chars("Infinity"),
    Chars("-Infinity"), Chars(" 4e2 "), Chars("1.50"), Chars("0x1F"),
    Chars("true"), Chars("4 and") }

ValueInputs ==
  ValueExamples \cup UNION {[1..n -> ValueAlphabet] : n \in 0..MaxValueLen}

ValueInit ==
  /\ valueRaw \in ValueInputs
  /\ literal = NoResult
  /\ valuePc = "call"
  /\ SplitIdle /\ CmpIdle /\ ResIdle /\ AppIdle

ValueCall ==
  /\ valuePc = "call"
  /\ literal' = parseValue(valueRaw)
  /\ valuePc' = "done"
  /\ UNCHANGED <<valueRaw, splitVars, cmpVars, resVars, appVars>>

ValueNext == ValueCall

SpecValue == ValueInit /\ [][ValueNext]_vars

\* the trimmed text begins and ends with the same quote character
Wrapped(t) == Len(t) >= 2 /\ t[1] \in QuoteChars /\ t[Len(t)] = t[1]

\* no unescaped quote of the wrapping kind stands between the two
NoInnerQuote(t) ==
  \A k \in 2..(Len(t) - 1) : t[k] = t[1] => t[k - 1] = "\\"

\* C7 as stated: parseValue returns the inner text as a string iff the trimmed
\* text is wrapped in one matching pair of quotes with no unescaped matching
\* quote inside; otherwise a number when the whole trimmed text parses as a
\* finite number; otherwise the trimmed text as a string.
C7_QuotedWithoutInnerQuote ==
  valuePc = "done" =>
    LET t == trim(valueRaw)
        n == StrToNumber(t)
    IN literal =
         IF Wrapped(t) /\ NoInnerQuote(t) THEN Str(SubSeq(t, 2, Len(t) - 1))
         ELSE IF n.k = "fin" THEN n
         ELSE Str(t)

\* C7 amended: parseValue returns a string holding the inner text iff the
\* trimmed text has at least two characters, begins and ends with the same
\* quote character and holds no line terminator in between (quotes of either
\* kind may stand inside); otherwise the number Number(trimmed text) when that
\* is not NaN (an infinity included); otherwise the trimmed text as a string.
C7_QuotedByFirstAndLast ==
  valuePc = "done" =>
    LET t == trim(valueRaw)
        n == Number(Str(t))
        quoted == Wrapped(t) /\ \A k \in 2..(Len(t) - 1) : t[k] \notin LineTerminators
    IN /\ quoted <=> (literal.t = "string" /\ <<t[1]>> \o literal.v \o <<t[1]>> = t
                        /\ Wrapped(t))
       /\ ~quoted => IF n.k = "nan" THEN literal = Str(t) ELSE literal = n
       /\ valueRaw \in {Chars("'400'"), Chars("\"400\"")} => literal = Str(Chars("400"))
       /\ valueRaw = Chars("400") => literal = Int2Num(400)

C7_Witness ==
  /\ valuePc = "done"
  /\ valueRaw = Chars(" '4'4' ")
  /\ literal = Str(Chars("4'4"))

\* ------------------------------------------------------------------------
\* SpecCompare: one call of compare
\* ------------------------------------------------------------------------

\* the longest string operand drawn from OperandAlphabet
MaxOperandLen == 2

OperandAlphabet == {"4", "a", "A", " "}

OperandExamples ==
  { Undefined, Null, Bool(TRUE), Bool(FALSE), Obj(<<>>),
    Int2Num(0), Int2Num(1), Int2Num(400), Int2Num(-5), Fin(15, -1), NaN, PosInf,
    Str(Chars("400")), Str(Chars(" 400 ")), Str(Chars("abc")), Str(Chars("ABC")),
    Str(Chars("Infinity")), Str(Chars(" Infinity")), Str(Chars("1")),
    Str(Chars("true")), Str(Chars("4e2")), Str(Chars("1.50")), Str(Chars("0x10")),
    Str(Chars("16")), Str(Chars("NaN")), Str(Chars("-5")) }

Operands ==
  OperandExamples
    \cup {Str(s) : s \in UNION {[1..n -> OperandAlphabet] : n \in 0..MaxOperandLen}}

CompareOps == {OpEq, OpNeq, OpGt, OpLt, OpGte, OpLte}

CompareInit ==
  /\ cmpA \in Operands
  /\ cmpOp \in CompareOps
  /\ cmpB \in Operands
  /\ cmpResult = "none"
  /\ SplitIdle /\ ValueIdle /\ ResIdle /\ AppIdle

CompareCall ==
  /\ cmpResult = "none"
  /\ cmpResult' = Truth(compare(cmpA, cmpOp, cmpB))
  /\ UNCHANGED <<cmpA, cmpOp, cmpB, splitVars, valueVars, resVars, appVars>>

CompareNext == CompareCall

SpecCompare == CompareInit /\ [][CompareNext]_vars

\* numeric-coercible as the spec defines it: a number, or a non-blank string
\* whose trimmed content parses as a finite number
FiniteCoercible(x) ==
  \/ x.t = "number"
  \/ x.t = "string" /\ NonBlank(x.v) /\ StrToNumber(x.v).k = "fin"

\* numeric-coercible as line 107 has it: a number, or a non-blank string that
\* Number() does not turn into NaN
Coercible(x) ==
  \/ x.t = "number"
  \/ x.t = "string" /\ NonBlank(x.v) /\ StrToNumber(x.v).k # "nan"

\* the numeric ordering the operator op states of two numbers
Ordered(x, op, y) ==
  CASE op = OpGt  -> NumLess(y, x)
    [] op = OpLt  -> NumLess(x, y)
    [] op = OpGte -> NumLess(y, x) \/ NumEq(x, y)
    [] op = OpLte -> NumLess(x, y) \/ NumEq(x, y)

\* the string form of an operand, an absent one being the empty string
TextForm(x) == IF x.t \in {"undefined", "null"} THEN <<>> ELSE String(x)

\* C5: under >, <, >=, <= compare returns false whenever an operand is not
\* numeric-coercible (a number, or a non-blank string that parses as a finite
\* number), and the numeric ordering of the two numbers otherwise.
C5_OrderingNeedsCoercible ==
  (cmpResult # "none" /\ cmpOp \in {OpGt, OpLt, OpGte, OpLte}) =>
    cmpResult =
      IF FiniteCoercible(cmpA) /\ FiniteCoercible(cmpB)
        THEN Truth(Ordered(Number(cmpA), cmpOp, Number(cmpB)))
        ELSE "false"

\* C6 as stated: == is numeric equality when both operands are
\* numeric-coercible (finite), and equality of the string forms ignoring case
\* otherwise; != is its negation.
C6_EqualityFiniteCoercible ==
  (cmpResult # "none" /\ cmpOp \in {OpEq, OpNeq}) =>
    LET same == IF FiniteCoercible(cmpA) /\ FiniteCoercible(cmpB)
                  THEN NumEq(Number(cmpA), Number(cmpB))
                  ELSE toLowerCase(TextForm(cmpA)) = toLowerCase(TextForm(cmpB))
    IN cmpResult = Truth(IF cmpOp = OpEq THEN same ELSE ~same)

\* C6 amended: == is numeric equality when both operands are numbers or
\* non-blank strings that Number() does not turn into NaN (a string that
\* parses as an infinity included), and equality of the string forms ignoring
\* case otherwise, an absent operand being the empty string; != is its
\* negation.
C6_EqualityCoercible ==
  (cmpResult # "none" /\ cmpOp \in {OpEq, OpNeq}) =>
    LET na == Number(cmpA)
        nb == Number(cmpB)
        same == IF Coercible(cmpA) /\ Coercible(cmpB)
                  THEN ~NumLess(na, nb) /\ ~NumLess(nb, na) /\ ~isNaN(na) /\ ~isNaN(nb)
                  ELSE toLowerCase(TextForm(cmpA)) = toLowerCase(TextForm(cmpB))
    IN /\ cmpResult = Truth(IF cmpOp = OpEq THEN same ELSE ~same)
       /\ (cmpA = Str(Chars("400")) /\ cmpB = Int2Num(400)) => cmpResult = Truth(cmpOp = OpEq)
       /\ (cmpA = Str(Chars("abc")) /\ cmpB = Int2Num(1)) => cmpResult = Truth(cmpOp = OpNeq)

C6_Witness ==
  /\ cmpA = Str(Chars("400")) /\ cmpOp = OpEq /\ cmpB = Int2Num(400)
  /\ cmpResult = "true"

\* ------------------------------------------------------------------------
\* SpecResolve: one call of resolveField
\* ------------------------------------------------------------------------

ResolveRows ==
  { Obj(<<M("points", Int2Num(400)), M("area", S("Al Kharid"))>>),
    Obj(<<M("task", S("A")), M("Pts", S("50")), M("area", Obj(<<M("name", S("Y"))>>))>>),
    Obj(<<M("pts", Int2Num(5)), M("points", Int2Num(400)), M("region", S("R"))>>),
    Obj(<<M("tier", Int2Num(2)), M("location", S("L")), M("area", Int2Num(7))>>),
    Obj(<<M("Level", Int2Num(3)), M("lvl", Int2Num(4)), M("a", Obj(<<M("B", Null)>>))>>),
    Obj(<<M("point", Int2Num(1)), M("a.b", S("flat")), M("", S("empty"))>>),
    Obj(<<>>) }

ResolveFields ==
  { Chars("points"), Chars("pts"), Chars("Pts"), Chars("PONTS"), Chars("ponts"),
    Chars("point"), Chars("area"), Chars("Area"), Chars("region"),
    Chars("location"), Chars("level"), Chars("lvl"), Chars("LVL"), Chars("tier"),
    Chars("task"), Chars("a.b"), Chars("a.B.c"), Chars("area.name"), Chars("a."),
    Chars("completed"), Chars("constructor") }

ResolveInit ==
  /\ resRow \in ResolveRows
  /\ resField \in ResolveFields
  /\ resResult = NoResult
  /\ SplitIdle /\ ValueIdle /\ CmpIdle /\ AppIdle

ResolveCall ==
  /\ resResult = NoResult
  /\ resResult' = resolveField(resRow, resField)
  /\ UNCHANGED <<resRow, resField, splitVars, valueVars, cmpVars, appVars>>

ResolveNext == ResolveCall

SpecResolve == ResolveInit /\ [][ResolveNext]_vars

\* the spellings the spec accepts for each group, the canonical name first
SynonymGroups ==
  { <<PointsText, PtsText, PontsText, PointText>>,
    <<AreaText, RegionText, LocationText>>,
    <<LevelText, LvlText, TierText>> }

\* C1: every accepted spelling of a group, in any letter case, resolves to what
\* the group's canonical name resolves to; on a record with a top-level points
\* member every spelling of the points group resolves to that member's value.
C1_SynonymsResolveAlike ==
  resResult # NoResult =>
    \A g \in SynonymGroups :
      toLowerCase(resField) \in Range(g) =>
        /\ resResult = resolveField(resRow, g[1])
        /\ (g[1] = PointsText /\ Member(resRow, PointsText) # Undefined)
             => resResult = Member(resRow, PointsText)


\* ------------------------------------------------------------------------
\* Spec: the App. The user replaces the query text and ticks the checkboxes
\* of the tasks shown; each handler ends with the render that recomputes
\* conditions and filteredByQuery.
\* ------------------------------------------------------------------------

\* the longest dataset drawn, in rows
MaxRows == 2

\* how many times one task is toggled at most
MaxToggles == 2

RowA == Obj(<<M("task", S("A")), M("area", S("X")), M("points", Int2Num(10))>>)

RowB == Obj(<<M("task", S("B")), M("area", S("X")), M("points", Int2Num(50))>>)

\* a record with members named completed and done of its own
RowC ==
  Obj(<<M("task", S("C")), M("area", Obj(<<M("name", S("Y"))>>)), M("Pts", S("50")),
        M("completed", Bool(FALSE)), M("done", S("true"))>>)

SampleRows == {RowA, RowB, RowC}

Datasets == UNION {[1..n -> SampleRows] : n \in 0..MaxRows}

AppQueries ==
  { Chars(""), Chars("completed"), Chars("!completed"), Chars("done"),
    Chars("!DONE"), Chars("completed = true"), Chars("completed != true"),
    Chars("Done = true"), Chars("DONE != true"), Chars("pts > 20"),
    Chars("pts > 20 and completed"), Chars("select * where area = 'X'"),
    Chars("foo bar"), Chars("foo bar and pts > 20 and = 3"),
    Chars("where !done and points <= 10"), Chars("constructor = 1") }

\* the ids of the items
Ids(items) == {items[k].id : k \in DOMAIN items}

AppStart(rows) ==
  /\ normalized = Normalize(rows)
  /\ query = <<>>
  /\ done = <<>>
  /\ conditions = parseQuery(<<>>)
  /\ filtered = filteredByQuery(Normalize(rows), parseQuery(<<>>), <<>>)
  /\ toggles = [id \in Ids(Normalize(rows)) |-> 0]

Init ==
  /\ \E rows \in Datasets : AppStart(rows)
  /\ SplitIdle /\ ValueIdle /\ CmpIdle /\ ResIdle

\* line 257: onChange={(e) => setQuery(e.target.value)}, then the render
setQuery(text) ==
  /\ ~filtered.raised
  /\ query' = text
  /\ conditions' = parseQuery(text)
  /\ filtered' = filteredByQuery(normalized, parseQuery(text), done)
  /\ UNCHANGED <<normalized, done, toggles, splitVars, valueVars, cmpVars, resVars>>

\* line 300: onChange={() => toggleDone(task.id)} of a task shown, then the render
toggleDone(id) ==
  /\ ~filtered.raised
  /\ id \in Ids(filtered.items)
  /\ toggles[id] < MaxToggles
  /\ done' = Toggled(done, id)
  /\ toggles' = [toggles EXCEPT ![id] = @ + 1]
  /\ filtered' = filteredByQuery(normalized, conditions, Toggled(done, id))
  /\ UNCHANGED <<normalized, query, conditions, splitVars, valueVars, cmpVars, resVars>>

ReplaceQuery == \E text \in AppQueries : setQuery(text)

TickTask == \E id \in Ids(normalized) : toggleDone(id)

Next == ReplaceQuery \/ TickTask

Spec == Init /\ [][Next]_vars

\* the items of the dataset that satisfy keep, in the dataset's order
ItemsWhere(keep(_)) == SelectSeq(normalized, keep)

OddToggles(item) == toggles[item.id] % 2 = 1

EvenToggles(item) == toggles[item.id] % 2 = 0

\* what the query text retains in the current state
Retained(text) == filteredByQuery(normalized, parseQuery(Chars(text)), done)

\* C2: from an empty store, after any toggles, the query completed retains
\* exactly the items whose id was toggled an odd number of times and the query
\* !completed exactly the others: the two are disjoint and cover the dataset.
C2_OddTogglesAreCompleted ==
  /\ Retained("completed") = Kept(ItemsWhere(OddToggles))
  /\ Retained("!completed") = Kept(ItemsWhere(EvenToggles))
  /\ query = Chars("completed") => filtered = Kept(ItemsWhere(OddToggles))
  /\ query = Chars("!completed") => filtered = Kept(ItemsWhere(EvenToggles))
  /\ \A k \in DOMAIN normalized :
       (normalized[k] \in Range(Retained("completed").items))
         # (normalized[k] \in Range(Retained("!completed").items))
  /\ \A id \in Ids(normalized) : DoneOf(done, id) <=> toggles[id] % 2 = 1

C2_Witness ==
  /\ query = Chars("!completed")
  /\ \E id \in Ids(normalized) : toggles[id] = 2
  /\ \E id \in Ids(normalized) : toggles[id] = 1
  /\ Len(filtered.items) = 1
  /\ Len(normalized) = 2

\* the spellings of the completion field tried
CompletionSpellings == {"completed", "done", "Completed", "DONE"}

\* C4: whatever the record holds, completed = true (or done = true, in any
\* letter case) retains what the flag completed retains, and completed != true
\* what the flag !completed retains: the operand is the store's value.
C4_BinaryCompletedIsFlag ==
  /\ \A f \in CompletionSpellings :
       /\ Retained(f \o " = true") = Retained("completed")
       /\ Retained(f \o " != true") = Retained("!completed")
       /\ Retained(f \o "=true") = Kept(SelectSeq(normalized, LAMBDA item : DoneOf(done, item.id)))
  /\ query \in {Chars("completed = true"), Chars("Done = true")}
       => filtered = Retained("completed")
  /\ query \in {Chars("completed != true"), Chars("DONE != true")}
       => filtered = Retained("!completed")

C4_Witness ==
  /\ query = Chars("completed = true")
  /\ \E k \in DOMAIN filtered.items :
       /\ Member(filtered.items[k].row, CompletedText) = Bool(FALSE)
       /\ DoneOf(done, filtered.items[k].id)
  /\ Len(filtered.items) < Len(normalized)

\* C8: the filtered result is the subsequence of the items for which every
\* condition holds, in the input's order (every item when there is no
\* condition), and evaluating again yields the same result.
C8_FilterIsStableSubsequence ==
  /\ ~filtered.raised
  /\ filtered.items =
       SelectSeq(normalized,
                 LAMBDA item : \A k \in DOMAIN conditions :
                                 CondHolds(conditions[k], item, done) = "true")
  /\ filteredByQuery(normalized, conditions, done) = filtered

\* ------------------------------------------------------------------------
\* SpecParse: the App on a fixed dataset, where the user pastes a query text
\* into the empty query box or clears the box (line 257); each input event
\* ends with the render that parses the query and filters.
\* ------------------------------------------------------------------------

\* how many tokens a pasted query text is made of at most
MaxQueryTokens == 4

ParseTokens ==
  { Chars(" and "), Chars("x"), Chars("done"), Chars("!"), Chars("="),
    Chars(">"), Chars(" ") }

ParseExamples ==
  { Chars("!Completed and pts => 10 and = 3 and select"),
    Chars("where foo bar and x <") }

ParseInputs ==
  ParseExamples \cup
  {Flatten(ts) : ts \in UNION {[1..n -> ParseTokens] : n \in 0..MaxQueryTokens}}

ParseInit ==
  /\ AppStart(<<RowA, RowB>>)
  /\ SplitIdle /\ ValueIdle /\ CmpIdle /\ ResIdle

PasteQuery == \E text \in ParseInputs : query = <<>> /\ setQuery(text)

ClearQuery == query # <<>> /\ setQuery(<<>>)

ParseNext == PasteQuery \/ ClearQuery

SpecParse == ParseInit /\ [][ParseNext]_vars

\* the completion flags, in lower case
FlagSpellings ==
  {Chars("completed"), Chars("done"), Chars("!completed"), Chars("!done")}

IsFlagClause(c) == toLowerCase(trim(c)) \in FlagSpellings

\* c is <field> <op> <value>: a non-empty field of letters, digits, _ and .
\* up to position i, optional white space, an operator at position j,
\* optional white space, and a non-empty value from position v to the end,
\* on one line
IsBinaryClause(c) ==
  \E i \in 1..Len(c), j \in 2..Len(c), v \in 3..Len(c), k \in DOMAIN Operators :
    /\ i < j /\ j + Len(Operators[k]) <= v
    /\ AllIn(SubSeq(c, 1, i), FieldChars)
    /\ AllIn(SubSeq(c, i + 1, j - 1), WhiteSpace)
    /\ SubSeq(c, j, j + Len(Operators[k]) - 1) = Operators[k]
    /\ AllIn(SubSeq(c, j + Len(Operators[k]), v - 1), WhiteSpace)
    /\ \A n \in v..Len(c) : c[n] \notin LineTerminators

Parseable(c) == IsFlagClause(c) \/ IsBinaryClause(c)

\* the clauses of the query text shown
QueryClauses == IF query = <<>> THEN <<>> ELSE queryClauses(query)

\* C10: parseQuery always yields a list of conditions; a clause yields one
\* condition when it is a completion flag or <field> <op> <value> and none
\* otherwise; the conditions are those of the parseable clauses alone, in
\* their order; a query of unparseable clauses only yields no condition and
\* retains every item.
C10_UnparseableClausesAreDropped ==
  /\ \A k \in DOMAIN conditions : conditions[k].type \in {"flag", "binary"}
  /\ \A k \in DOMAIN QueryClauses :
       Len(parseClause(QueryClauses[k])) =
         (IF Parseable(QueryClauses[k]) THEN 1 ELSE 0)
  /\ conditions = parseClauses(SelectSeq(QueryClauses, Parseable))
  /\ Len(conditions) = Len(SelectSeq(QueryClauses, Parseable))
  /\ (\A k \in DOMAIN QueryClauses : ~Parseable(QueryClauses[k]))
       => conditions = <<>> /\ filtered = Kept(normalized)

C10_Witness ==
  /\ query = Chars("!Completed and pts => 10 and = 3 and select")
  /\ Len(QueryClauses) = 4
  /\ conditions = <<FlagCond(FALSE),
                    BinaryCond(Chars("pts"), OpEq, S("> 10"))>>

====
